---- MODULE Spec2Model ----
(***************************************************************************)
(* Camera log dashboard (src/app.py): log parsing, session builders,       *)
(* compressed event table, label normalisation and the daily summary.      *)
(*                                                                         *)
(* Conventions of the model                                                *)
(*   - a string of words is the sequence of its space-separated tokens     *)
(*     ("Power On" is <<"Power", "On">>); substring search is search for   *)
(*     a contiguous run of tokens;                                         *)
(*   - a datetime is its number of seconds since 2025-01-01 00:00:00, a    *)
(*     date is its number of days since 2025-01-01;                        *)
(*   - duration_h holds the exact number of seconds (hours * 3600);        *)
(*   - a camera-id token dddddd-dddddd is the pair of its two groups.      *)
(***************************************************************************)
EXTENDS Integers, Sequences, FiniteSets, TLC

VARIABLES
    pc,                \* position of the script: upload, waiting, halted, parsed, done
    uploaded_files,    \* the uploaded files: a sequence of [name, lines]
    df,                \* the parsed (then sorted, then filtered) event rows
    charge_sessions,   \* build_charging_sessions(df)
    power_sessions,    \* build_pair_sessions(df, "power on", "power off")
    rec_sessions,      \* build_pair_sessions(df, "start record", "stop record")
    pre_rec_sessions,  \* build_pair_sessions(df, "start pre-record|...", "stop pre-record|...")
    daily,             \* the daily dictionary: (camera, day) -> totals
    summary_df,        \* the sorted daily summary rows
    compressed,        \* compress_event_table(df)
    ev,                \* argument of a direct call of normalize_event_name
    canon              \* its result

vars == <<pc, uploaded_files, df, charge_sessions, power_sessions, rec_sessions,
          pre_rec_sessions, daily, summary_df, compressed, ev, canon>>

\* ------------------------------------------------------------------ bounds

MaxLines == 4
MaxWords == 5

\* --------------------------------------------------------------- constants

TIME_GAP_SECONDS == 600

\* ------------------------------------------------------------------- words

\* The letter case forms of the words the model's texts use: lower, Title, UPPER.
CaseForms ==
    { <<"power", "Power", "POWER">>, <<"on", "On", "ON">>, <<"off", "Off", "OFF">>,
      <<"system", "System", "SYSTEM">>, <<"auto", "Auto", "AUTO">>,
      <<"usb", "Usb", "USB">>, <<"remove", "Remove", "REMOVE">>,
      <<"command", "Command", "COMMAND">>, <<"battery", "Battery", "BATTERY">>,
      <<"charging", "Charging", "CHARGING">>, <<"changing", "Changing", "CHANGING">>,
      <<"done", "Done", "DONE">>, <<"start", "Start", "START">>,
      <<"stop", "Stop", "STOP">>, <<"record", "Record", "RECORD">>,
      <<"pre", "Pre", "PRE">>, <<"low", "Low", "LOW">>, <<"level", "Level", "LEVEL">>,
      <<"motion", "Motion", "MOTION">>, <<"automatic", "Automatic", "AUTOMATIC">>,
      <<"removed", "Removed", "REMOVED">>,
      <<"disconnected", "Disconnected", "DISCONNECTED">> }

CasedWords == UNION { {f[1], f[2], f[3]} : f \in CaseForms }

FormOf == [w \in CasedWords |-> CHOOSE f \in CaseForms : w \in {f[1], f[2], f[3]}]

\* str.lower() of one token, and of a string.
LowerWord(w) == IF w \in CasedWords THEN FormOf[w][1] ELSE w

Lower(s) == [i \in 1..Len(s) |-> LowerWord(s[i])]

\* str.title() of one token, and of a string.
TitleWord(w) == IF w \in CasedWords THEN FormOf[w][2] ELSE w

Title(s) == [i \in 1..Len(s) |-> TitleWord(s[i])]

\* Python's "needle in hay" on strings.
Contains(hay, needle) ==
    \E i \in 0..(Len(hay) - Len(needle)) : SubSeq(hay, i + 1, i + Len(needle)) = needle

\* str.replace(old, new): every non-overlapping occurrence, left to right.
RECURSIVE Replace(_, _, _)
Replace(s, old, new) ==
    IF Len(s) < Len(old) THEN s
    ELSE IF SubSeq(s, 1, Len(old)) = old
         THEN new \o Replace(SubSeq(s, Len(old) + 1, Len(s)), old, new)
         ELSE <<s[1]>> \o Replace(Tail(s), old, new)

\* ------------------------------------------------- normalize_event_name

ev_map ==
    << [k |-> <<"power", "on">>, v |-> <<"Powered", "On">>],
       [k |-> <<"power", "off">>, v |-> <<"Powered", "Off">>],
       [k |-> <<"system", "power", "off", "-", "auto">>, v |-> <<"Automatic", "Shutdown">>],
       [k |-> <<"system", "power", "off", "-", "usb", "remove">>,
        v |-> <<"Shutdown", "(USB", "removed)">>],
       [k |-> <<"battery", "charging">>, v |-> <<"Charging">>],
       [k |-> <<"battery", "changing", "done">>, v |-> <<"Charging", "Completed">>],
       [k |-> <<"start", "record">>, v |-> <<"Recording", "Started">>],
       [k |-> <<"stop", "record">>, v |-> <<"Recording", "Stopped">>],
       [k |-> <<"start", "pre", "record">>, v |-> <<"Pre-record", "Started">>],
       [k |-> <<"stop", "pre", "record">>, v |-> <<"Pre-record", "Stopped">>],
       [k |-> <<"low", "battery">>, v |-> <<"Low", "Battery">>] >>

\* The index of the first entry of ev_map, from i on, whose key is in ev_l; 0 if none.
RECURSIVE FirstMatch(_, _)
FirstMatch(ev_l, i) ==
    IF i > Len(ev_map) THEN 0
    ELSE IF Contains(ev_l, ev_map[i].k) THEN i
    ELSE FirstMatch(ev_l, i + 1)

normalize_event_name(e) ==
    LET ev_l == Lower(e)
        e2 == Replace(Replace(Replace(e, <<"usb", "command">>, <<"USB", "disconnected">>),
                              <<"usb", "remove">>, <<"USB", "removed">>),
                      <<"auto">>, <<"automatic">>)
        m == FirstMatch(ev_l, 1)
    IN IF m # 0 THEN ev_map[m].v ELSE Title(e2)

\* ------------------------------------------------------------- parse_logs

\* The value of a "<digits>%" token.
PctValue ==
    [t \in {"5%", "15%", "35%", "40%", "60%", "66%", "70%", "85%", "90%"} |->
       CASE t = "5%" -> 5 [] t = "15%" -> 15 [] t = "35%" -> 35 [] t = "40%" -> 40
         [] t = "60%" -> 60 [] t = "66%" -> 66 [] t = "70%" -> 70 [] t = "85%" -> 85
         [] t = "90%" -> 90]

IsLeap(y) == (y % 4 = 0 /\ y % 100 # 0) \/ y % 400 = 0

DaysInMonth(y, mo) ==
    IF mo = 2 THEN (IF IsLeap(y) THEN 29 ELSE 28)
    ELSE IF mo \in {4, 6, 9, 11} THEN 30 ELSE 31

RECURSIVE DaysBeforeMonth(_, _)
DaysBeforeMonth(y, mo) ==
    IF mo <= 1 THEN 0 ELSE DaysBeforeMonth(y, mo - 1) + DaysInMonth(y, mo - 1)

\* Days from 0001-01-01 to the first day of year y.
DaysBeforeYear(y) ==
    365 * (y - 1) + ((y - 1) \div 4) - ((y - 1) \div 100) + ((y - 1) \div 400)

\* datetime.strptime(ts_s, "%Y-%m-%d %H:%M:%S") succeeds.
StrptimeOk(t) ==
    /\ t.y >= 1
    /\ t.mo \in 1..12
    /\ t.d \in 1..DaysInMonth(t.y, t.mo)
    /\ t.h \in 0..23
    /\ t.mi \in 0..59
    /\ t.s \in 0..59

\* The datetime, in seconds since 2025-01-01 00:00:00.
Strptime(t) ==
    (DaysBeforeYear(t.y) + DaysBeforeMonth(t.y, t.mo) + t.d - 1 - DaysBeforeYear(2025)) * 86400
        + t.h * 3600 + t.mi * 60 + t.s

\* timestamp.date(), in days since 2025-01-01.
DateOf(timestamp) == timestamp \div 86400

\* "Battery Level - N%" (any letter case) starts at token p of body.
ClauseAt(body, p) ==
    /\ p + 3 <= Len(body)
    /\ LowerWord(body[p]) = "battery"
    /\ LowerWord(body[p + 1]) = "level"
    /\ body[p + 2] = "-"
    /\ body[p + 3] \in DOMAIN PctValue

\* The "-" tokens of body that a battery clause follows.
EventEnds(body) ==
    { d \in 1..Len(body) : body[d] = "-" /\ \E p \in (d + 1)..Len(body) : ClauseAt(body, p) }

SetMin(S) == CHOOSE x \in S : \A y \in S : x <= y

SetMax(S) == CHOOSE x \in S : \A y \in S : x >= y

\* pattern.search(line): the text after "#" is body; the lazy event group ends at the
\* first "-" that a battery clause follows, the greedy ".*" runs to the last clause.
PatternMatches(line) == "blank" \notin DOMAIN line /\ EventEnds(line.body) # {}

MatchEvent(line) == SubSeq(line.body, 1, SetMin(EventEnds(line.body)) - 1)

MatchBattery(line) ==
    LET d == SetMin(EventEnds(line.body))
        p == SetMax({q \in (d + 1)..Len(line.body) : ClauseAt(line.body, q)})
    IN PctValue[line.body[p + 3]]

\* The camera group of the match with its second six digits left out.
CameraFirstGroup(line) == <<line.id[1], 0>>

\* The camera group of the match: the whole token, both groups of six digits.
CameraOf(line) == line.id

\* The rows one file contributes, in line order.
RECURSIVE ParseLines(_, _)
ParseLines(lines, filename) ==
    IF lines = <<>> THEN <<>>
    ELSE LET line == Head(lines)
             rest == ParseLines(Tail(lines), filename)
         IN IF "blank" \in DOMAIN line THEN rest
            ELSE IF ~PatternMatches(line) THEN rest
            ELSE IF ~StrptimeOk(line.ts) THEN rest
            ELSE << [timestamp |-> Strptime(line.ts),
                     camera |-> CameraOf(line),
                     event |-> MatchEvent(line),
                     battery |-> MatchBattery(line),
                     file |-> filename] >> \o rest

RECURSIVE parse_logs(_)
parse_logs(files) ==
    IF files = <<>> THEN <<>>
    ELSE ParseLines(Head(files).lines, Head(files).name) \o parse_logs(Tail(files))

\* ------------------------------------------------------- pandas helpers

\* Order of camera ids: both groups are six digits wide, so the order of the
\* strings is the order of the pairs of numbers.
CameraLess(a, b) == a[1] < b[1] \/ (a[1] = b[1] /\ a[2] < b[2])

\* RowLess with the timestamps in descending order.
RowLessDescending(a, b) ==
    CameraLess(a.camera, b.camera) \/ (a.camera = b.camera /\ a.timestamp > b.timestamp)

\* The sort key ["camera", "timestamp"].
RowLess(a, b) ==
    CameraLess(a.camera, b.camera) \/ (a.camera = b.camera /\ a.timestamp < b.timestamp)

\* Insert r into the sorted s after every row that is not greater: the sort of
\* several columns is stable.
RECURSIVE InsertRow(_, _)
InsertRow(s, r) ==
    IF s = <<>> THEN <<r>>
    ELSE IF RowLess(r, Head(s)) THEN <<r>> \o s
    ELSE <<Head(s)>> \o InsertRow(Tail(s), r)

RECURSIVE SortPrefix(_, _)
SortPrefix(rows, n) == IF n = 0 THEN <<>> ELSE InsertRow(SortPrefix(rows, n - 1), rows[n])

\* rows.sort_values(["camera", "timestamp"])
sort_values(rows) == SortPrefix(rows, Len(rows))

\* The outcomes of df.sort_values("timestamp"): the sort of one column is not
\* stable, so rows of equal timestamp come out in any order.
SortedByTimestamp(rows) ==
    { [i \in 1..Len(rows) |-> rows[p[i]]] : p \in
        { q \in Permutations(1..Len(rows)) :
            \A i \in 1..(Len(rows) - 1) : rows[q[i]].timestamp <= rows[q[i + 1]].timestamp } }

\* The keys of groupby("camera"), ascending.
RECURSIVE SortedCameras(_)
SortedCameras(S) ==
    IF S = {} THEN <<>>
    ELSE LET m == CHOOSE c \in S : \A o \in S : o = c \/ CameraLess(c, o)
         IN <<m>> \o SortedCameras(S \ {m})

CameraKeys(rows) == SortedCameras({rows[i].camera : i \in 1..Len(rows)})

\* One group of groupby("camera"): its rows in the order of the frame.
Group(rows, cam) == SelectSeq(rows, LAMBDA r : r.camera = cam)

\* -------------------------------------------------- build_charging_sessions

ChargingRow(cam, session_start, last_time, start_bat, last_bat) ==
    [camera |-> cam, start |-> session_start, end |-> last_time,
     start_bat |-> start_bat, end_bat |-> last_bat,
     duration_h |-> last_time - session_start]

\* WithinGap with a gap of exactly the threshold taken as a split.
WithinGapStrict(cur, last_time) == cur - last_time < TIME_GAP_SECONDS

\* The test that continues the current session.
WithinGap(cur, last_time) == cur - last_time <= TIME_GAP_SECONDS

\* The loop over g.loc[i], i >= 1 (rows i + 1 of the 1-based sequence), and the
\* closing of the final session.
RECURSIVE ChargingLoop(_, _, _, _, _, _, _)
ChargingLoop(cam, g, i, session_start, start_bat, last_time, last_bat) ==
    IF i > Len(g)
    THEN << ChargingRow(cam, session_start, last_time, start_bat, last_bat) >>
    ELSE LET cur == g[i].timestamp
             cur_bat == g[i].battery
         IN IF WithinGap(cur, last_time)
            THEN ChargingLoop(cam, g, i + 1, session_start, start_bat, cur, cur_bat)
            ELSE << ChargingRow(cam, session_start, last_time, start_bat, last_bat) >>
                 \o ChargingLoop(cam, g, i + 1, cur, cur_bat, cur, cur_bat)

ChargingGroup(cam, g) ==
    ChargingLoop(cam, g, 2, g[1].timestamp, g[1].battery, g[1].timestamp, g[1].battery)

IsCharging(r) == Contains(Lower(r.event), <<"charging">>)

RECURSIVE ChargingGroups(_, _)
ChargingGroups(dfc, cams) ==
    IF cams = <<>> THEN <<>>
    ELSE ChargingGroup(Head(cams), Group(dfc, Head(cams))) \o ChargingGroups(dfc, Tail(cams))

build_charging_sessions(rows) ==
    LET dfc == sort_values(SelectSeq(rows, IsCharging))
    IN ChargingGroups(dfc, CameraKeys(dfc))

\* ------------------------------------------------------ build_pair_sessions

\* A keyword string of the caller: alts are the alternatives the string has as a
\* regular expression (split at "|"), lit is the string taken literally.
PowerOnKw == [alts |-> << <<"power", "on">> >>, lit |-> <<"power", "on">>]

PowerOffKw == [alts |-> << <<"power", "off">> >>, lit |-> <<"power", "off">>]

StartRecordKw == [alts |-> << <<"start", "record">> >>, lit |-> <<"start", "record">>]

StopRecordKw == [alts |-> << <<"stop", "record">> >>, lit |-> <<"stop", "record">>]

StartPreRecordKw ==
    [alts |-> << <<"start", "pre-record">>, <<"start", "pre", "record">>,
                 <<"start", "pre_record">> >>,
     lit |-> <<"start", "pre-record|start", "pre", "record|start", "pre_record">>]

StopPreRecordKw ==
    [alts |-> << <<"stop", "pre-record">>, <<"stop", "pre", "record">>,
                 <<"stop", "pre_record">> >>,
     lit |-> <<"stop", "pre-record|stop", "pre", "record|stop", "pre_record">>]

\* str.contains(start_keyword + "|" + stop_keyword, case=False) on one row.
MatchesKeywords(r, start_keyword, stop_keyword) ==
    \/ \E a \in 1..Len(start_keyword.alts) : Contains(Lower(r.event), start_keyword.alts[a])
    \/ \E a \in 1..Len(stop_keyword.alts) : Contains(Lower(r.event), stop_keyword.alts[a])

\* "start_keyword in ev" and "stop_keyword in ev", ev the lower-cased event.
IsStart(r, start_keyword) == Contains(Lower(r.event), start_keyword.lit)

IsStop(r, stop_keyword) == Contains(Lower(r.event), stop_keyword.lit)

\* PairStep with the pending start kept after a stop has closed a session.
PairStepKeepsPending(st, cam, r, start_keyword, stop_keyword, event_label) ==
    IF Contains(Lower(r.event), start_keyword.lit)
    THEN [st EXCEPT !.pending_start = <<r.timestamp>>, !.start_bat = <<r.battery>>]
    ELSE IF Contains(Lower(r.event), stop_keyword.lit) /\ st.pending_start # <<>>
    THEN [st EXCEPT !.rows = Append(st.rows,
                      [camera |-> cam,
                       start |-> st.pending_start[1],
                       end |-> r.timestamp,
                       start_bat |-> st.start_bat[1],
                       end_bat |-> r.battery,
                       duration_h |-> r.timestamp - st.pending_start[1],
                       event |-> <<event_label, "(start->stop)">>])]
    ELSE st

\* One iteration of the loop over a camera's rows. The loop's variables are
\* st.pending_start and st.start_bat (<<>> is None, <<x>> is x) and st.rows, the
\* rows appended so far.
PairStep(st, cam, r, start_keyword, stop_keyword, event_label) ==
    IF IsStart(r, start_keyword)
    THEN [st EXCEPT !.pending_start = <<r.timestamp>>, !.start_bat = <<r.battery>>]
    ELSE IF IsStop(r, stop_keyword) /\ st.pending_start # <<>>
    THEN [pending_start |-> <<>>,
          start_bat |-> <<>>,
          rows |-> Append(st.rows,
                      [camera |-> cam,
                       start |-> st.pending_start[1],
                       end |-> r.timestamp,
                       start_bat |-> st.start_bat[1],
                       end_bat |-> r.battery,
                       duration_h |-> r.timestamp - st.pending_start[1],
                       event |-> <<event_label, "(start->stop)">>])]
    ELSE st

RECURSIVE PairLoop(_, _, _, _, _, _, _)
PairLoop(st, cam, g, i, start_keyword, stop_keyword, event_label) ==
    IF i > Len(g) THEN st.rows
    ELSE PairLoop(PairStep(st, cam, g[i], start_keyword, stop_keyword, event_label),
                  cam, g, i + 1, start_keyword, stop_keyword, event_label)

PairGroup(cam, g, start_keyword, stop_keyword, event_label) ==
    PairLoop([pending_start |-> <<>>, start_bat |-> <<>>, rows |-> <<>>],
             cam, g, 1, start_keyword, stop_keyword, event_label)

RECURSIVE PairGroups(_, _, _, _, _)
PairGroups(dfx, cams, start_keyword, stop_keyword, event_label) ==
    IF cams = <<>> THEN <<>>
    ELSE PairGroup(Head(cams), Group(dfx, Head(cams)), start_keyword, stop_keyword, event_label)
         \o PairGroups(dfx, Tail(cams), start_keyword, stop_keyword, event_label)

build_pair_sessions(rows, start_keyword, stop_keyword, event_label) ==
    LET dfx == sort_values(SelectSeq(rows,
                   LAMBDA r : MatchesKeywords(r, start_keyword, stop_keyword)))
    IN PairGroups(dfx, CameraKeys(dfx), start_keyword, stop_keyword, event_label)

\* ----------------------------------------------------- compress_event_table

CompressedRow(cur_cam, cur_event, start_time, end_time, start_bat, end_bat) ==
    [Camera |-> cur_cam, Event |-> normalize_event_name(cur_event),
     StartTime |-> start_time, EndTime |-> end_time,
     StartBattery |-> start_bat, EndBattery |-> end_bat,
     Duration_h |-> end_time - start_time]

\* SameRun without the test of the camera.
SameRunAnyCamera(r, cur_event, cur_cam) == r.event = cur_event

\* SameRun on the normalized labels.
SameRunCanonical(r, cur_event, cur_cam) ==
    normalize_event_name(r.event) = normalize_event_name(cur_event) /\ r.camera = cur_cam

\* The test that continues the current range.
SameRun(r, cur_event, cur_cam) == r.event = cur_event /\ r.camera = cur_cam

RECURSIVE CompressLoop(_, _, _, _, _, _, _, _)
CompressLoop(d, i, cur_cam, cur_event, start_time, end_time, start_bat, end_bat) ==
    IF i > Len(d)
    THEN << CompressedRow(cur_cam, cur_event, start_time, end_time, start_bat, end_bat) >>
    ELSE LET r == d[i]
         IN IF SameRun(r, cur_event, cur_cam)
            THEN CompressLoop(d, i + 1, cur_cam, cur_event, start_time, r.timestamp,
                              start_bat, r.battery)
            ELSE << CompressedRow(cur_cam, cur_event, start_time, end_time, start_bat, end_bat) >>
                 \o CompressLoop(d, i + 1, r.camera, r.event, r.timestamp, r.timestamp,
                                 r.battery, r.battery)

compress_event_table(rows) ==
    IF rows = <<>> THEN <<>>
    ELSE LET d == sort_values(rows)
         IN CompressLoop(d, 2, d[1].camera, d[1].event, d[1].timestamp, d[1].timestamp,
                         d[1].battery, d[1].battery)

\* -------------------------------------------------------------- add_daily

\* The index of the row of key (camera, day) in the dictionary's values; 0 if none.
RECURSIVE DailyIndex(_, _, _, _)
DailyIndex(d, camera, day, i) ==
    IF i > Len(d) THEN 0
    ELSE IF d[i].Camera = camera /\ d[i].Date = day THEN i
    ELSE DailyIndex(d, camera, day, i + 1)

\* add_daily with "=" written for "+=": a total is overwritten, not accumulated.
add_daily_assign(d, camera, day, kind, hours) ==
    LET d1 == IF DailyIndex(d, camera, day, 1) = 0
              THEN Append(d, [Camera |-> camera, Date |-> day, Total_Charging_h |-> 0,
                              Total_Powered_On_h |-> 0, Total_Recording_h |-> 0])
              ELSE d
        k == DailyIndex(d1, camera, day, 1)
    IN IF kind = "charge"
       THEN [d1 EXCEPT ![k].Total_Charging_h = hours]
       ELSE IF kind = "power"
       THEN [d1 EXCEPT ![k].Total_Powered_On_h = hours]
       ELSE IF kind = "rec"
       THEN [d1 EXCEPT ![k].Total_Recording_h = hours]
       ELSE d1

\* add_daily(camera, day, kind, hours) on the dictionary d, whose values are kept
\* in insertion order.
add_daily(d, camera, day, kind, hours) ==
    LET d1 == IF DailyIndex(d, camera, day, 1) = 0
              THEN Append(d, [Camera |-> camera, Date |-> day, Total_Charging_h |-> 0,
                              Total_Powered_On_h |-> 0, Total_Recording_h |-> 0])
              ELSE d
        k == DailyIndex(d1, camera, day, 1)
    IN IF kind = "charge"
       THEN [d1 EXCEPT ![k].Total_Charging_h = @ + hours]
       ELSE IF kind = "power"
       THEN [d1 EXCEPT ![k].Total_Powered_On_h = @ + hours]
       ELSE IF kind = "rec"
       THEN [d1 EXCEPT ![k].Total_Recording_h = @ + hours]
       ELSE d1

\* One of the loops "for _, s in sessions.iterrows(): ... add_daily(camera, day, kind, dur)".
RECURSIVE AddSessions(_, _, _)
AddSessions(d, sessions, kind) ==
    IF sessions = <<>> THEN d
    ELSE AddSessions(add_daily(d, Head(sessions).camera, DateOf(Head(sessions).start),
                               kind, Head(sessions).duration_h),
                     Tail(sessions), kind)

\* The sort key (r["Date"], r["Camera"]).
SummaryLess(a, b) == a.Date < b.Date \/ (a.Date = b.Date /\ CameraLess(a.Camera, b.Camera))

RECURSIVE InsertSummary(_, _)
InsertSummary(s, r) ==
    IF s = <<>> THEN <<r>>
    ELSE IF SummaryLess(r, Head(s)) THEN <<r>> \o s
    ELSE <<Head(s)>> \o InsertSummary(Tail(s), r)

RECURSIVE SortSummary(_, _)
SortSummary(rows, n) ==
    IF n = 0 THEN <<>> ELSE InsertSummary(SortSummary(rows, n - 1), rows[n])

\* sorted(daily.values(), key=lambda r: (r["Date"], r["Camera"]))
SortedDaily(d) == SortSummary(d, Len(d))

\* ------------------------------------------------------------ the script

\* The script stops at the uploader while nothing is uploaded.
NoUpload ==
    /\ pc = "upload"
    /\ uploaded_files = <<>>
    /\ pc' = "waiting"
    /\ UNCHANGED <<uploaded_files, df, charge_sessions, power_sessions, rec_sessions,
                   pre_rec_sessions, daily, summary_df, compressed, ev, canon>>

\* parse_logs found no entry: the error is shown and the script stops.
ParseEmpty ==
    /\ pc = "upload"
    /\ uploaded_files # <<>>
    /\ \E rows \in { parse_logs(uploaded_files) } :
         /\ rows = <<>>
         /\ df' = rows
    /\ pc' = "halted"
    /\ UNCHANGED <<uploaded_files, charge_sessions, power_sessions, rec_sessions,
                   pre_rec_sessions, daily, summary_df, compressed, ev, canon>>

\* ParseLogs without the test of df.empty: the script goes on with no entry.
ParseLogsNoEmptyCheck ==
    /\ pc = "upload"
    /\ uploaded_files # <<>>
    /\ df' \in SortedByTimestamp(parse_logs(uploaded_files))
    /\ pc' = "parsed"
    /\ UNCHANGED <<uploaded_files, charge_sessions, power_sessions, rec_sessions,
                   pre_rec_sessions, daily, summary_df, compressed, ev, canon>>

\* parse_logs found entries: they are sorted by timestamp.
ParseLogs ==
    /\ pc = "upload"
    /\ uploaded_files # <<>>
    /\ \E rows \in { parse_logs(uploaded_files) } :
         /\ rows # <<>>
         /\ df' \in SortedByTimestamp(rows)
    /\ pc' = "parsed"
    /\ UNCHANGED <<uploaded_files, charge_sessions, power_sessions, rec_sessions,
                   pre_rec_sessions, daily, summary_df, compressed, ev, canon>>

\* The dates df holds, among which the user picks the date range.
DatesOf(rows) == {DateOf(rows[i].timestamp) : i \in 1..Len(rows)}

\* The daily dictionary after the three graph sections, each adding its sessions.
DailyOf(charge, power, rec, pre_rec) ==
    LET d1 == AddSessions(<<>>, charge, "charge")
        d2 == AddSessions(d1, power, "power")
    IN IF rec # <<>> \/ pre_rec # <<>>
       THEN AddSessions(AddSessions(d2, rec, "rec"), pre_rec, "rec")
       ELSE d2

\* The rest of the script, which runs to its end: the date and camera filters, the
\* four session tables, the graph sections with the daily dictionary, the daily
\* summary table (built when the dictionary is not empty) and the compressed table.
RunDashboard ==
    /\ pc = "parsed"
    /\ \E start_date \in DatesOf(df), end_date \in DatesOf(df) :
         \E dated \in { SelectSeq(df, LAMBDA r : /\ DateOf(r.timestamp) >= start_date
                                                /\ DateOf(r.timestamp) <= end_date) } :
           \E selected_cams \in SUBSET {dated[i].camera : i \in 1..Len(dated)} :
             \E f \in { SelectSeq(dated, LAMBDA r : r.camera \in selected_cams) } :
               \E charge \in { build_charging_sessions(f) },
                  power \in { build_pair_sessions(f, PowerOnKw, PowerOffKw, "Power") },
                  rec \in { build_pair_sessions(f, StartRecordKw, StopRecordKw, "Record") },
                  pre_rec \in { build_pair_sessions(f, StartPreRecordKw, StopPreRecordKw,
                                                    "Pre-Record") } :
                 \E d \in { DailyOf(charge, power, rec, pre_rec) } :
                    /\ df' = f
                    /\ charge_sessions' = charge
                    /\ power_sessions' = power
                    /\ rec_sessions' = rec
                    /\ pre_rec_sessions' = pre_rec
                    /\ daily' = d
                    /\ summary_df' = IF d # <<>> THEN SortedDaily(d) ELSE <<>>
                    /\ compressed' = compress_event_table(f)
    /\ pc' = "done"
    /\ UNCHANGED <<uploaded_files, ev, canon>>

Next == NoUpload \/ ParseEmpty \/ ParseLogs \/ RunDashboard

\* A direct call of normalize_event_name.
Normalize ==
    /\ pc = "call"
    /\ canon' = normalize_event_name(ev)
    /\ pc' = "return"
    /\ UNCHANGED <<uploaded_files, df, charge_sessions, power_sessions, rec_sessions,
                   pre_rec_sessions, daily, summary_df, compressed, ev>>

\* ------------------------------------------------------------ the inputs

\* A log line: its timestamp fields, its camera-id token, and the text after "#".
Line(ts, id, text) == [ts |-> ts, id |-> id, body |-> text]

BlankLine == [blank |-> TRUE]

\* "<event> - Battery Level - <pct>"
WithBattery(event, pct) == event \o <<"-", "Battery", "Level", "-", pct>>

\* The timestamp 2025-09-<d> <h>:<mi>:<s>.
At(d, h, mi, s) == [y |-> 2025, mo |-> 9, d |-> d, h |-> h, mi |-> mi, s |-> s]

\* All sequences of at most n elements of S.
SeqsUpTo(S, n) == UNION { [1..k -> S] : k \in 0..n }

\* The uploads of one file of at most n lines of L, and the upload of nothing.
OneFile(L, n) ==
    {<<>>} \cup { << [name |-> "a.log", lines |-> ls] >> : ls \in SeqsUpTo(L, n) }

\* The uploads of two files that share at most n lines of L.
TwoFiles(L, n) ==
    UNION { { << [name |-> "a.log", lines |-> SubSeq(ls, 1, k)],
                 [name |-> "b.log", lines |-> SubSeq(ls, k + 1, Len(ls))] >> :
              k \in 1..(Len(ls) - 1) } : ls \in SeqsUpTo(L, n) }

InitWith(U) ==
    /\ pc = "upload"
    /\ uploaded_files \in U
    /\ df = <<>>
    /\ charge_sessions = <<>>
    /\ power_sessions = <<>>
    /\ rec_sessions = <<>>
    /\ pre_rec_sessions = <<>>
    /\ daily = <<>>
    /\ summary_df = <<>>
    /\ compressed = <<>>
    /\ ev = <<>>
    /\ canon = <<>>

CameraA == <<7446, 0>>

CameraB == <<7447, 0>>

PowerOn == <<"Power", "On">>

PowerOff == <<"Power", "Off">>

\* Power on/off lines of camera A through a day, and a power-on line of camera B.
PairLines ==
    { Line(At(9, 8, 0, 0), CameraA, WithBattery(PowerOn, "90%")),
      Line(At(9, 8, 0, 0), CameraA, WithBattery(PowerOff, "85%")),
      Line(At(9, 12, 0, 0), CameraA, WithBattery(PowerOn, "66%")),
      Line(At(9, 12, 0, 0), CameraA, WithBattery(PowerOff, "60%")),
      Line(At(9, 18, 0, 0), CameraA, WithBattery(PowerOff, "35%")),
      Line(At(9, 12, 0, 0), CameraB, WithBattery(PowerOn, "70%")) }

InitPair == InitWith(OneFile(PairLines, MaxLines))

SpecPair == InitPair /\ [][Next]_vars

\* ------------------------------------------------- paired start/stop claims

\* The rows of table T of camera cam, in output order.
OfCamera(T, cam) == SelectSeq(T, LAMBDA x : x.camera = cam)

\* The cameras of the rows of df and of the sessions of table T.
CamerasIn(T) == {df[i].camera : i \in 1..Len(df)} \cup {T[i].camera : i \in 1..Len(T)}

\* The events of camera cam that build_pair_sessions scans, in scan order.
PairEvents(cam, start_keyword, stop_keyword) ==
    Group(sort_values(SelectSeq(df, LAMBDA r : MatchesKeywords(r, start_keyword, stop_keyword))),
          cam)

\* Row j of g is handled as a stop: it has the stop keyword and not the start keyword.
StopAt(g, j, start_keyword, stop_keyword) ==
    IsStop(g[j], stop_keyword) /\ ~IsStart(g[j], start_keyword)

\* The stops of g seen while a start is pending: the nearest start or stop before
\* them is a start.
ClosingStops(g, start_keyword, stop_keyword) ==
    { j \in 1..Len(g) :
        /\ StopAt(g, j, start_keyword, stop_keyword)
        /\ \E i \in 1..(j - 1) :
             /\ IsStart(g[i], start_keyword)
             /\ \A k \in (i + 1)..(j - 1) : ~StopAt(g, k, start_keyword, stop_keyword) }

\* The closing stop before j, or 0.
PreviousClosing(C, j) == SetMax({x \in C : x < j} \cup {0})

\* Table T holds, for each camera, exactly one session per closing stop, in order;
\* the session ends at that stop and starts at a start event between the previous
\* closing stop and it, so it is no shorter than 0.
CompletePairs(T, start_keyword, stop_keyword) ==
    \A cam \in CamerasIn(T) :
        LET g == PairEvents(cam, start_keyword, stop_keyword)
            C == ClosingStops(g, start_keyword, stop_keyword)
            S == OfCamera(T, cam)
        IN /\ Len(S) = Cardinality(C)
           /\ \A j \in C :
                LET x == S[Cardinality({c \in C : c <= j})]
                IN /\ x.end = g[j].timestamp
                   /\ x.end_bat = g[j].battery
                   /\ \E i \in (PreviousClosing(C, j) + 1)..(j - 1) :
                        /\ IsStart(g[i], start_keyword)
                        /\ x.start = g[i].timestamp
                        /\ x.start_bat = g[i].battery
                   /\ x.end >= x.start
                   /\ x.duration_h = x.end - x.start
                   /\ x.duration_h >= 0

\* C1: every session of build_pair_sessions pairs a start-keyword event with a
\* later stop-keyword event of the same camera at a later-or-equal time; each stop
\* closes at most one session; a stop with no pending start and a start still
\* pending at the end of the camera's events emit nothing.
PairSessionsAreCompletePairs ==
    pc = "done" =>
        /\ CompletePairs(power_sessions, PowerOnKw, PowerOffKw)
        /\ CompletePairs(rec_sessions, StartRecordKw, StopRecordKw)
        /\ CompletePairs(pre_rec_sessions, StartPreRecordKw, StopPreRecordKw)

\* A camera with a closed session, a stop that closes nothing and a start left
\* pending at the end.
PairSessionsWitness ==
    /\ pc = "done"
    /\ \E cam \in CamerasIn(power_sessions) :
         LET g == PairEvents(cam, PowerOnKw, PowerOffKw)
             C == ClosingStops(g, PowerOnKw, PowerOffKw)
         IN /\ C # {}
            /\ OfCamera(power_sessions, cam) # <<>>
            /\ \E j \in 1..Len(g) : StopAt(g, j, PowerOnKw, PowerOffKw) /\ j \notin C
            /\ IsStart(g[Len(g)], PowerOnKw)

\* The first of the start events that precede stop j with no stop in between.
FirstPendingStart(g, j, start_keyword, stop_keyword) ==
    SetMin({ i \in 1..(j - 1) :
               /\ IsStart(g[i], start_keyword)
               /\ \A k \in i..(j - 1) : ~StopAt(g, k, start_keyword, stop_keyword) })

FirstStartKept(T, start_keyword, stop_keyword) ==
    \A cam \in CamerasIn(T) :
        LET g == PairEvents(cam, start_keyword, stop_keyword)
            C == ClosingStops(g, start_keyword, stop_keyword)
            S == OfCamera(T, cam)
        IN \A j \in C :
             LET k == Cardinality({c \in C : c <= j})
                 i == FirstPendingStart(g, j, start_keyword, stop_keyword)
             IN k <= Len(S) =>
                  /\ S[k].start = g[i].timestamp
                  /\ S[k].start_bat = g[i].battery

\* C2: when several start events of a camera precede the next stop, the session's
\* start timestamp and start battery are those of the first of them.
PairSessionKeepsFirstStart ==
    pc = "done" =>
        /\ FirstStartKept(power_sessions, PowerOnKw, PowerOffKw)
        /\ FirstStartKept(rec_sessions, StartRecordKw, StopRecordKw)

\* ------------------------------------------------------- charging claims

BatteryCharging == <<"Battery", "Charging">>

\* Charging lines: camera A at 00:00:00, 00:10:00, 00:10:01 and 00:20:01, so that
\* gaps of 1 s, 600 s, 601 s and more occur; camera B, in lower case, at two times
\* 601 s apart; and one line that is no charging line.
ChargeLines ==
    { Line(At(9, 0, 0, 0), CameraA, WithBattery(BatteryCharging, "66%")),
      Line(At(9, 0, 10, 0), CameraA, WithBattery(BatteryCharging, "70%")),
      Line(At(9, 0, 10, 1), CameraA, WithBattery(BatteryCharging, "85%")),
      Line(At(9, 0, 20, 1), CameraA, WithBattery(BatteryCharging, "90%")),
      Line(At(9, 0, 0, 0), CameraB, WithBattery(<<"battery", "charging">>, "15%")),
      Line(At(9, 0, 10, 1), CameraB, WithBattery(<<"battery", "charging">>, "40%")),
      Line(At(9, 0, 10, 0), CameraA, WithBattery(PowerOn, "60%")) }

InitCharge == InitWith(OneFile(ChargeLines, MaxLines))

SpecCharge == InitCharge /\ [][Next]_vars

\* The charging events of camera cam, sorted by time.
ChargingEvents(cam) == Group(sort_values(SelectSeq(df, IsCharging)), cam)

\* The places i of g where the gap to the next event exceeds the threshold.
GapsOver(g) ==
    { i \in 1..(Len(g) - 1) : g[i + 1].timestamp - g[i].timestamp > TIME_GAP_SECONDS }

\* The number of the session that event i of g lies in, when sessions split exactly
\* at the gaps over the threshold.
SessionOf(g, i) == 1 + Cardinality({c \in GapsOver(g) : c < i})

\* C3: two consecutive charging events of a camera lie in the same session iff
\* their gap is at most TIME_GAP_SECONDS: a camera with n >= 1 charging events has
\* 1 + (number of gaps over the threshold) sessions, each starting at its first
\* event and ending at its last.
ChargingSessionsSplitAtGaps ==
    pc = "done" =>
        \A cam \in CamerasIn(charge_sessions) :
            LET g == ChargingEvents(cam)
                S == OfCamera(charge_sessions, cam)
            IN /\ Len(S) = (IF g = <<>> THEN 0 ELSE 1 + Cardinality(GapsOver(g)))
               /\ \A k \in 1..Len(S) :
                    LET members == {i \in 1..Len(g) : SessionOf(g, i) = k}
                        first == SetMin(members)
                        last == SetMax(members)
                    IN /\ members # {}
                       /\ S[k].start = g[first].timestamp
                       /\ S[k].start_bat = g[first].battery
                       /\ S[k].end = g[last].timestamp
                       /\ S[k].end_bat = g[last].battery
                       /\ S[k].duration_h = g[last].timestamp - g[first].timestamp

\* A camera with a gap of exactly the threshold inside one session and a gap over
\* the threshold between two sessions.
ChargingSessionsWitness ==
    /\ pc = "done"
    /\ \E cam \in CamerasIn(charge_sessions) :
         LET g == ChargingEvents(cam)
         IN /\ \E i \in 1..(Len(g) - 1) :
                 g[i + 1].timestamp - g[i].timestamp = TIME_GAP_SECONDS
            /\ GapsOver(g) # {}
            /\ Len(OfCamera(charge_sessions, cam)) = 2

\* ------------------------------------------------ compressed table claims

\* Lines whose events repeat, differ in letter case only, or differ.
CompressLines ==
    { Line(At(9, 8, 0, 0), CameraA, WithBattery(PowerOn, "90%")),
      Line(At(9, 12, 0, 0), CameraA, WithBattery(PowerOn, "66%")),
      Line(At(9, 12, 0, 0), CameraA, WithBattery(<<"power", "on">>, "60%")),
      Line(At(9, 18, 0, 0), CameraA, WithBattery(PowerOff, "40%")),
      Line(At(9, 18, 0, 0), CameraA, WithBattery(<<"Motion">>, "35%")),
      Line(At(9, 12, 0, 0), CameraB, WithBattery(PowerOn, "70%")),
      Line(At(9, 18, 0, 0), CameraB, WithBattery(PowerOn, "15%")) }

InitCompress == InitWith(OneFile(CompressLines, MaxLines))

SpecCompress == InitCompress /\ [][Next]_vars

\* The events in the order compress_event_table scans them.
SortedEvents == sort_values(df)

\* The first and the last event of run k, when the runs of 1..n end at the places
\* of K and at n.
RunFirst(K, k) == IF k = 1 THEN 1 ELSE SetMin({c \in K : Cardinality({x \in K : x <= c}) = k - 1}) + 1

RunLast(K, k, n) ==
    IF k = Cardinality(K) + 1 THEN n
    ELSE SetMin({c \in K : Cardinality({x \in K : x <= c}) = k})

\* Session k of the compressed table is run k of d under the cuts K: it spans the
\* run from its first to its last event, and the run is of one camera.
IsRun(d, K, k) ==
    LET lo == RunFirst(K, k)
        hi == RunLast(K, k, Len(d))
        x == compressed[k]
    IN /\ lo <= hi
       /\ \A i \in lo..hi : d[i].camera = x.Camera
       /\ x.StartTime = d[lo].timestamp
       /\ x.StartBattery = d[lo].battery
       /\ x.EndTime = d[hi].timestamp
       /\ x.EndBattery = d[hi].battery
       /\ x.Duration_h = d[hi].timestamp - d[lo].timestamp

\* C4: for a non-empty event list the sessions of compress_event_table, in order,
\* are consecutive non-empty runs that cover the (camera, timestamp)-sorted
\* events; no run mixes two cameras; a camera with one event has exactly one
\* session, with StartTime = EndTime and Duration_h = 0.
CompressionIsLosslessPartition ==
    (pc = "done" /\ df # <<>>) =>
        LET d == SortedEvents
        IN /\ \E K \in SUBSET (1..(Len(d) - 1)) :
                /\ Len(compressed) = Cardinality(K) + 1
                /\ \A k \in 1..Len(compressed) : IsRun(d, K, k)
           /\ \A cam \in {d[i].camera : i \in 1..Len(d)} :
                Len(Group(d, cam)) = 1 =>
                    LET S == SelectSeq(compressed, LAMBDA x : x.Camera = cam)
                    IN /\ Len(S) = 1
                       /\ S[1].StartTime = S[1].EndTime
                       /\ S[1].Duration_h = 0

\* Two cameras, one of them with a single event, the other with a run of two events.
CompressionWitness ==
    /\ pc = "done"
    /\ Len(df) >= 3
    /\ Len(compressed) = 2
    /\ compressed[1].Camera # compressed[2].Camera
    /\ \E cam \in {df[i].camera : i \in 1..Len(df)} : Len(Group(df, cam)) = 1

\* The places of d where the camera or f of the event changes.
CutsBy(d, f(_)) ==
    { i \in 1..(Len(d) - 1) : d[i].camera # d[i + 1].camera \/ f(d[i].event) # f(d[i + 1].event) }

RawText(e) == e

OrderLines ==
    { Line(At(9, 8, 0, 0), CameraA, WithBattery(PowerOn, "90%")),
      Line(At(9, 12, 0, 0), CameraA, WithBattery(PowerOff, "66%")),
      Line(At(9, 12, 0, 0), CameraA, WithBattery(PowerOn, "60%")),
      Line(At(9, 18, 0, 0), CameraA, WithBattery(PowerOff, "40%")),
      Line(At(9, 18, 0, 0), CameraA, WithBattery(BatteryCharging, "35%")),
      Line(At(9, 12, 0, 0), CameraB, WithBattery(BatteryCharging, "70%")) }

InitOrder ==
    InitWith(OneFile(OrderLines, MaxLines) \cup TwoFiles(OrderLines, MaxLines - 1))

SpecOrder == InitOrder /\ [][Next]_vars

\* The (camera, start, end) of the rows of a session table and of the compressed table.
Spans(T) == [i \in 1..Len(T) |-> [camera |-> T[i].camera, start |-> T[i].start, end |-> T[i].end]]

CompressedSpans ==
    [i \in 1..Len(compressed) |->
        [camera |-> compressed[i].Camera, start |-> compressed[i].StartTime,
         end |-> compressed[i].EndTime]]

\* Each camera's rows of T, in output order, are disjoint and ordered.
DisjointAndOrdered(T) ==
    \A cam \in {T[i].camera : i \in 1..Len(T)} :
        LET S == OfCamera(T, cam)
        IN /\ \A i \in 1..Len(S) : S[i].start <= S[i].end
           /\ \A i \in 1..(Len(S) - 1) : S[i].end <= S[i + 1].start

NormWords == {"System", "Power", "Off", "-", "Auto", "USB", "Remove"}

\* The texts normalize_event_name is called with: every text of at most MaxWords
\* of these words, and every key of ev_map itself, in title case.
NormInputs ==
    SeqsUpTo(NormWords, MaxWords) \cup {Title(ev_map[i].k) : i \in 1..Len(ev_map)}

InitNorm ==
    /\ pc = "call"
    /\ ev \in NormInputs
    /\ canon = <<>>
    /\ uploaded_files = <<>>
    /\ df = <<>>
    /\ charge_sessions = <<>>
    /\ power_sessions = <<>>
    /\ rec_sessions = <<>>
    /\ pre_rec_sessions = <<>>
    /\ daily = <<>>
    /\ summary_df = <<>>
    /\ compressed = <<>>

NextNorm == Normalize

SpecNorm == InitNorm /\ [][NextNorm]_vars

\* C7: first match over ev_map reaches every entry of the table: a label that is
\* a key of the table normalizes to that key's value, a label containing
\* "system power off - auto" normalizes to "Automatic Shutdown" and one containing
\* "system power off - usb remove" to "Shutdown (USB removed)", never to the
\* generic "Powered Off".
NormalizeReachesEveryEntry ==
    pc = "return" =>
        /\ \A i \in 1..Len(ev_map) : Lower(ev) = ev_map[i].k => canon = ev_map[i].v
        /\ Contains(Lower(ev), <<"system", "power", "off", "-", "auto">>)
               => canon = <<"Automatic", "Shutdown">>
        /\ Contains(Lower(ev), <<"system", "power", "off", "-", "usb", "remove">>)
               => canon = <<"Shutdown", "(USB", "removed)">>

\* ------------------------------------------------ claims about the daily summary

StartRecord == <<"Start", "Record">>

StopRecord == <<"Stop", "Record">>

\* Camera A is powered on twice on 2025-09-10 and charges over the next midnight;
\* camera B records over the midnight before.
DailyLines ==
    { Line(At(10, 8, 0, 0), CameraA, WithBattery(PowerOn, "90%")),
      Line(At(10, 12, 0, 0), CameraA, WithBattery(PowerOff, "66%")),
      Line(At(10, 12, 0, 0), CameraA, WithBattery(PowerOn, "60%")),
      Line(At(10, 23, 58, 0), CameraA, WithBattery(BatteryCharging, "35%")),
      Line(At(11, 0, 3, 0), CameraA, WithBattery(BatteryCharging, "40%")),
      Line(At(9, 23, 0, 0), CameraB, WithBattery(StartRecord, "85%")),
      Line(At(10, 0, 30, 0), CameraB, WithBattery(StopRecord, "70%")) }

InitDaily == InitWith(OneFile(DailyLines, MaxLines))

SpecDaily == InitDaily /\ [][Next]_vars

\* The (camera, date of start) pairs of the sessions of table T.
KeysOf(T) == { <<T[i].camera, DateOf(T[i].start)>> : i \in 1..Len(T) }

\* The sum of duration_h over the sessions of T of camera cam that start on day.
RECURSIVE TotalOf(_, _, _)
TotalOf(T, cam, day) ==
    IF T = <<>> THEN 0
    ELSE (IF Head(T).camera = cam /\ DateOf(Head(T).start) = day
          THEN Head(T).duration_h ELSE 0) + TotalOf(Tail(T), cam, day)

\* C8: the daily summary has exactly one row per (camera, date of session start)
\* of the charging, power and recording sessions; each total of a row is the sum
\* of duration_h of that category's sessions of that camera and start date (0
\* when there are none); the rows are sorted by date, then camera.
DailySummaryTotals ==
    pc = "done" =>
        LET keys == KeysOf(charge_sessions) \cup KeysOf(power_sessions)
                        \cup KeysOf(rec_sessions)
            n == Len(summary_df)
        IN /\ { <<summary_df[i].Camera, summary_df[i].Date>> : i \in 1..n } = keys
           /\ n = Cardinality(keys)
           /\ \A i \in 1..n :
                LET r == summary_df[i]
                IN /\ r.Total_Charging_h = TotalOf(charge_sessions, r.Camera, r.Date)
                   /\ r.Total_Powered_On_h = TotalOf(power_sessions, r.Camera, r.Date)
                   /\ r.Total_Recording_h = TotalOf(rec_sessions, r.Camera, r.Date)
           /\ \A i \in 1..n : \A j \in (i + 1)..n :
                \/ summary_df[i].Date < summary_df[j].Date
                \/ /\ summary_df[i].Date = summary_df[j].Date
                   /\ CameraLess(summary_df[i].Camera, summary_df[j].Camera)

\* The summary has a row of camera B before a row of camera A of a later date,
\* which was entered first, and a row with a recording total and no charging.
DailySummaryWitness ==
    /\ pc = "done"
    /\ Len(summary_df) >= 2
    /\ summary_df # daily
    /\ \E i \in 1..Len(summary_df) : \E j \in (i + 1)..Len(summary_df) :
         CameraLess(summary_df[j].Camera, summary_df[i].Camera)
    /\ \E i \in 1..Len(summary_df) :
         summary_df[i].Total_Recording_h > 0 /\ summary_df[i].Total_Charging_h = 0
    /\ \E i \in 1..Len(summary_df) : summary_df[i].Total_Charging_h > 0

\* ------------------------------------------------------ claims about parse_logs

\* The second camera-id token with the first group of CameraA: 007446-000001.
CameraA1 == <<7446, 1>>

\* The timestamp text 2025-13-40 99:99:99, which strptime rejects.
BadTime == [y |-> 2025, mo |-> 13, d |-> 40, h |-> 99, mi |-> 99, s |-> 99]

\* Raw lines: charging lines of the tokens 007446-000000 and 007446-000001 five
\* minutes apart, a power-on line of the first and a power-off line of the second,
\* a line without a battery clause, a line with an impossible timestamp, and an
\* empty line.
RawLines ==
    { Line(At(9, 8, 0, 0), CameraA, WithBattery(BatteryCharging, "40%")),
      Line(At(9, 8, 5, 0), CameraA1, WithBattery(BatteryCharging, "60%")),
      Line(At(9, 8, 0, 0), CameraA, WithBattery(PowerOn, "90%")),
      Line(At(9, 8, 5, 0), CameraA1, WithBattery(PowerOff, "66%")),
      Line(At(9, 8, 0, 0), CameraA, PowerOn),
      Line(BadTime, CameraA, WithBattery(PowerOn, "85%")),
      BlankLine }

Init == InitWith(OneFile(RawLines, MaxLines) \cup TwoFiles(RawLines, MaxLines - 1))

Spec == Init /\ [][Next]_vars

\* The lines of the upload, over all files.
UploadedLines ==
    UNION { {uploaded_files[f].lines[i] : i \in 1..Len(uploaded_files[f].lines)} :
            f \in 1..Len(uploaded_files) }

\* The line carries a "Battery Level - N%" clause somewhere.
HasBatteryClause(line) == \E p \in 1..Len(line.body) : ClauseAt(line.body, p)

\* C9: a line with a valid timestamp, a camera-id token and an event text but no
\* "Battery Level - N%" clause is never dropped: it yields an event without a
\* battery value whose event text is everything after the camera-id token.
ParseKeepsLinesWithoutBattery ==
    pc \in {"parsed", "halted"} =>
        \A line \in UploadedLines :
            ( /\ "blank" \notin DOMAIN line
              /\ StrptimeOk(line.ts)
              /\ line.body # <<>>
              /\ ~HasBatteryClause(line) )
            => \E k \in 1..Len(df) :
                  /\ df[k].timestamp = Strptime(line.ts)
                  /\ df[k].event = line.body
                  /\ "battery" \notin DOMAIN df[k]

\* The line is one that parse_logs turns into a row.
Accepted(line) ==
    /\ "blank" \notin DOMAIN line
    /\ StrptimeOk(line.ts)
    /\ \E d \in 1..Len(line.body) :
         line.body[d] = "-" /\ \E p \in (d + 1)..Len(line.body) : ClauseAt(line.body, p)

\* The sessions of table T: camera, end points and the battery levels there.
SessionEnds(T) ==
    { [camera |-> T[i].camera, start |-> T[i].start, end |-> T[i].end,
       start_bat |-> T[i].start_bat, end_bat |-> T[i].end_bat] : i \in 1..Len(T) }

\* The sessions of the four session tables and of the compressed table.
AllSessions ==
    SessionEnds(charge_sessions) \cup SessionEnds(power_sessions)
        \cup SessionEnds(rec_sessions) \cup SessionEnds(pre_rec_sessions)
        \cup { [camera |-> compressed[i].Camera, start |-> compressed[i].StartTime,
                end |-> compressed[i].EndTime, start_bat |-> compressed[i].StartBattery,
                end_bat |-> compressed[i].EndBattery] : i \in 1..Len(compressed) }

\* The camera identity of a parsed event is the first group of the token only:
\* events whose tokens share the first group have the same camera, and charging
\* events of such tokens within the gap are in one charging session.
CameraIsFirstGroup ==
    /\ \A i \in 1..Len(df) : \A j \in 1..Len(df) :
         df[i].camera[1] = df[j].camera[1] => df[i].camera = df[j].camera
    /\ pc = "done" =>
         \A i \in 1..Len(charge_sessions) : \A j \in 1..Len(charge_sessions) :
            ( /\ i # j
              /\ charge_sessions[i].camera[1] = charge_sessions[j].camera[1]
              /\ charge_sessions[i].end <= charge_sessions[j].start )
            => charge_sessions[j].start - charge_sessions[i].end > TIME_GAP_SECONDS

\* C10: the camera identity of a parsed event is the whole camera-id token, both
\* groups: every accepted line yields a row whose camera is its whole token and
\* every row comes from such a line, and every session of every table starts and
\* ends at events of its own whole token, so that tokens sharing the first group
\* and differing in the second are separate cameras for every session builder.
CameraIsWholeToken ==
    /\ pc = "parsed" =>
         /\ \A line \in UploadedLines :
              Accepted(line) =>
                 \E k \in 1..Len(df) :
                    df[k].camera = line.id /\ df[k].timestamp = Strptime(line.ts)
         /\ \A k \in 1..Len(df) :
              \E line \in UploadedLines :
                 /\ Accepted(line)
                 /\ df[k].camera = line.id
                 /\ df[k].timestamp = Strptime(line.ts)
    /\ pc = "done" =>
         \A x \in AllSessions :
            /\ \E k \in 1..Len(df) :
                 /\ df[k].camera = x.camera
                 /\ df[k].timestamp = x.start
                 /\ df[k].battery = x.start_bat
            /\ \E k \in 1..Len(df) :
                 /\ df[k].camera = x.camera
                 /\ df[k].timestamp = x.end
                 /\ df[k].battery = x.end_bat

\* Charging lines of 007446-000000 and 007446-000001 five minutes apart gave two
\* charging sessions, and the power-on line of the first token and the power-off
\* line of the second gave no power session.
CameraTokensWitness ==
    /\ pc = "done"
    /\ Len(df) = 4
    /\ Len(charge_sessions) = 2
    /\ charge_sessions[1].camera = CameraA
    /\ charge_sessions[2].camera = CameraA1
    /\ charge_sessions[2].start - charge_sessions[1].end <= TIME_GAP_SECONDS
    /\ \E i \in 1..Len(df) : df[i].camera = CameraA /\ df[i].event = PowerOn
    /\ \E i \in 1..Len(df) : df[i].camera = CameraA1 /\ df[i].event = PowerOff
    /\ power_sessions = <<>>

\* -------------------------------------------------- claims about the empty parse

\* Lines of which only the first gives a row.
HaltLines ==
    { Line(At(9, 8, 0, 0), CameraA, WithBattery(BatteryCharging, "40%")),
      Line(At(9, 8, 0, 0), CameraA, PowerOn),
      Line(BadTime, CameraA, WithBattery(PowerOn, "85%")),
      BlankLine }

InitHalt == InitWith(OneFile(HaltLines, MaxLines) \cup TwoFiles(HaltLines, MaxLines))

\* The script runs each of its steps to the end: no step waits for anything but
\* the upload.
SpecHalt == InitHalt /\ [][Next]_vars /\ WF_vars(Next)

\* Files were uploaded and none of their lines gives a row.
NoValidEntries == uploaded_files # <<>> /\ ~\E line \in UploadedLines : Accepted(line)

\* No session table, daily summary or compressed table was built.
NothingBuilt ==
    /\ charge_sessions = <<>>
    /\ power_sessions = <<>>
    /\ rec_sessions = <<>>
    /\ pre_rec_sessions = <<>>
    /\ daily = <<>>
    /\ summary_df = <<>>
    /\ compressed = <<>>

\* C11: when the uploaded files give no parsed event, the script reaches the
\* "no valid entries" stop and stays there, and no session builder, daily summary
\* or compressed-table step runs; whenever such a step has run, the parsed events
\* were not empty.
NoEntriesHalts ==
    /\ [](NoValidEntries => pc \in {"upload", "halted"} /\ NothingBuilt)
    /\ [](pc \in {"parsed", "done"} => \E line \in UploadedLines : Accepted(line))
    /\ [](pc = "halted" => NoValidEntries /\ df = <<>>)
    /\ [][pc = "halted" => pc' = "halted"]_vars
    /\ (NoValidEntries ~> pc = "halted")

\* The script stopped at "no valid entries" on an upload of two files whose lines
\* are a line without a battery clause and a line with an impossible timestamp.
NoEntriesWitness ==
    /\ pc = "halted"
    /\ Len(uploaded_files) = 2
    /\ \E line \in UploadedLines : "blank" \notin DOMAIN line /\ ~StrptimeOk(line.ts)
    /\ \E line \in UploadedLines :
         "blank" \notin DOMAIN line /\ StrptimeOk(line.ts) /\ ~HasBatteryClause(line)
    /\ NothingBuilt

\* ------------------------------------------------ claims about pre-record sessions

StartPreRecord == <<"Start", "Pre", "Record">>

StopPreRecord == <<"Stop", "Pre", "Record">>

\* Camera A pre-records from 08:00 to 09:00 and records from 10:00 to 11:00;
\* camera B stops a pre-record in between.
PreRecordLines ==
    { Line(At(9, 8, 0, 0), CameraA, WithBattery(StartPreRecord, "85%")),
      Line(At(9, 9, 0, 0), CameraA, WithBattery(StopPreRecord, "70%")),
      Line(At(9, 10, 0, 0), CameraA, WithBattery(StartRecord, "66%")),
      Line(At(9, 11, 0, 0), CameraA, WithBattery(StopRecord, "60%")),
      Line(At(9, 8, 30, 0), CameraB, WithBattery(StopPreRecord, "90%")) }

InitPreRecord == InitWith(OneFile(PreRecordLines, MaxLines))

SpecPreRecord == InitPreRecord /\ [][Next]_vars

\* The event is a pre-record start, and a pre-record stop.
IsPreRecordStart(r) == Contains(Lower(r.event), <<"start", "pre", "record">>)

IsPreRecordStop(r) == Contains(Lower(r.event), <<"stop", "pre", "record">>)

\* C12: pre-record events are paired like the other start and stop events: when
\* a "Start Pre Record" event of a camera is followed later by a "Stop Pre Record"
\* event of the same camera, the pre-record table has a session of that camera
\* from a pre-record start to a later pre-record stop, and the day's recording
\* total of the summary holds the durations of the recording and the pre-record
\* sessions.
PreRecordSessionsArePaired ==
    pc = "done" =>
        \A i \in 1..Len(df) : \A j \in 1..Len(df) :
            ( /\ df[i].camera = df[j].camera
              /\ IsPreRecordStart(df[i])
              /\ IsPreRecordStop(df[j])
              /\ df[i].timestamp < df[j].timestamp )
            => /\ \E k \in 1..Len(pre_rec_sessions) :
                    /\ pre_rec_sessions[k].camera = df[i].camera
                    /\ pre_rec_sessions[k].start < pre_rec_sessions[k].end
                    /\ pre_rec_sessions[k].end = df[j].timestamp
               /\ \E k \in 1..Len(summary_df) :
                    /\ summary_df[k].Camera = df[i].camera
                    /\ summary_df[k].Total_Recording_h =
                          TotalOf(rec_sessions, df[i].camera, summary_df[k].Date)
                            + TotalOf(pre_rec_sessions, df[i].camera, summary_df[k].Date)
                    /\ summary_df[k].Total_Recording_h > 0

====
